---- MODULE Spec2Model ----
(***************************************************************************)
(* Model of scripts/publish_harvest.py: the daily publish run (main) and   *)
(* its sinks: the per-day snapshot (api/<date>.json), the daily picks, the *)
(* cumulative source statistics, the append-only JSONL dataset, the        *)
(* rolling RSS feed and the by-category index.                             *)
(*                                                                         *)
(* Dates are day numbers; 0 stands for a date string that is empty or does *)
(* not parse with %Y-%m-%d.  A file that does not exist is a key missing   *)
(* from the function that models its directory.                            *)
(***************************************************************************)
EXTENDS Integers, Sequences, FiniteSets, TLC

VARIABLES
    now,            \* wall clock day: datetime.now()
    pc,             \* position of main(): "idle" or the next sink to write
    runs,           \* number of invocations of main() so far
    date_str,       \* target date of the current invocation
    all_articles,   \* canonical records of the current invocation
    api,            \* api/<date>.json: date -> snapshot document
    daily_picks,    \* lists/daily-picks.json
    source_stats,   \* sources/source_stats.json
    dataset,        \* datasets/scored-articles.jsonl: sequence of lines
    rss,            \* feeds/rss.xml: lastBuildDate and the <item> blocks
    by_category,    \* indexes/by-category.json
    trending,       \* indexes/trending.json
    hist,           \* per sink: the arguments and prior file of its last call
    probe,          \* article handed to assign_verdict on its own
    probe_verdict   \* what assign_verdict returned for probe

vars == <<now, pc, runs, date_str, all_articles, api, daily_picks,
          source_stats, dataset, rss, by_category, trending, hist, probe,
          probe_verdict>>

----------------------------------------------------------------------------
(* Bounds *)

MaxRuns == 2
MaxBatch == 5

(* Program constants *)

FEED_LIMIT == 50
CATEGORY_DAYS == 30
CATEGORY_MIN_SCORE == 75
MIN_SCORE == 60
TRENDING_DAYS == 7
TRENDING_MIN_SCORE == 70
TRENDING_MIN_COUNT == 2
TRENDING_LIMIT == 20
MIN_WORD_LEN == 3

CHANNELS == <<"overseas", "wechat-ai">>

VERDICT_ORDER == <<"must_read", "worth_reading", "neutral", "noise", "overhyped">>

----------------------------------------------------------------------------
(* Helpers *)

\* dict.get(key, default)
Get(a, k, default) == IF k \in DOMAIN a THEN a[k] ELSE default

Range(s) == {s[i] : i \in 1..Len(s)}

RECURSIVE SumSeq(_)
SumSeq(s) == IF s = <<>> THEN 0 ELSE Head(s) + SumSeq(Tail(s))

RECURSIVE Count(_, _)
Count(s, x) ==
    IF s = <<>> THEN 0
    ELSE (IF Head(s) = x THEN 1 ELSE 0) + Count(Tail(s), x)

\* s[:n]
Take(s, n) == IF Len(s) <= n THEN s ELSE SubSeq(s, 1, n)

\* insertion of x into a list already sorted by descending score, after
\* every element whose score is >= x's: sorted() is stable, and with
\* reverse=True elements of equal score keep their original order
RECURSIVE InsertByScore(_, _)
InsertByScore(sorted, x) ==
    IF sorted = <<>> THEN <<x>>
    ELSE IF Head(sorted).score >= x.score
         THEN <<Head(sorted)>> \o InsertByScore(Tail(sorted), x)
         ELSE <<x>> \o sorted

\* sorted(s, key=lambda x: x["score"], reverse=True)
RECURSIVE SortByScoreDesc(_)
SortByScoreDesc(s) ==
    IF s = <<>> THEN <<>>
    ELSE InsertByScore(SortByScoreDesc(SubSeq(s, 1, Len(s) - 1)), s[Len(s)])

----------------------------------------------------------------------------
(* Verdict classifier *)

assign_verdict_gt85(article) ==
    LET score == Get(article, "score", 0)
        novelty == Get(article, "novelty", 0)
        depth == Get(article, "depth", 0)
        noise == Get(article, "noise", 0)
        credibility == Get(article, "credibility", 0)
    IN  IF score > 85 THEN "must_read"
        ELSE IF 75 <= score /\ score <= 84 /\ (novelty >= 2 \/ depth >= 2)
             THEN "worth_reading"
        ELSE IF 60 <= score /\ score <= 69 /\ noise <= 1 THEN "noise"
        ELSE IF score >= 70 /\ novelty = 0 /\ credibility <= 1 THEN "overhyped"
        ELSE "neutral"

assign_verdict(article) ==
    LET score == Get(article, "score", 0)
        novelty == Get(article, "novelty", 0)
        depth == Get(article, "depth", 0)
        noise == Get(article, "noise", 0)
        credibility == Get(article, "credibility", 0)
    IN  IF score >= 85 THEN "must_read"
        ELSE IF 75 <= score /\ score <= 84 /\ (novelty >= 2 \/ depth >= 2)
             THEN "worth_reading"
        ELSE IF 60 <= score /\ score <= 69 /\ noise <= 1 THEN "noise"
        ELSE IF score >= 70 /\ novelty = 0 /\ credibility <= 1 THEN "overhyped"
        ELSE "neutral"

\* the public fields of a raw article; the display-only fields core_point,
\* highlights, why_matters and level are carried through unread by every
\* sink modelled here and are left out
clean_article(article, channel) ==
    [title |-> Get(article, "title", ""),
     link |-> Get(article, "link", ""),
     source |-> Get(article, "source", ""),
     source_channel |-> channel,
     category |-> Get(article, "category", ""),
     pub_date |-> Get(article, "pub_date", 0),
     summary |-> Get(article, "summary", ""),
     score |-> Get(article, "score", 0),
     verdict |-> assign_verdict(article)]

----------------------------------------------------------------------------
(* Inputs: the raw articles the upstream cache of a channel can hold for a  *)
(* date d.  An article is published on d, or the day before, or carries a   *)
(* date that does not parse.  RawA and RawB are the same article (same      *)
(* pub_date, title and link) scored differently by the two channels.        *)

Raw(title, link, source, category, pub_date, summary, score, novelty, depth, noise, credibility, rejected) ==
    [title |-> title, link |-> link, source |-> source, category |-> category,
     pub_date |-> pub_date, summary |-> summary, score |-> score,
     novelty |-> novelty, depth |-> depth, noise |-> noise,
     credibility |-> credibility, rejected |-> rejected]

RawA(d) == Raw("t1", 101, "s1", "c1", d, "a", 90, 1, 1, 0, 3, FALSE)
RawB(d) == Raw("t1", 101, "s1", "c1", d, "b", 80, 2, 0, 1, 2, FALSE)
RawC(d) == Raw("t2", 102, "s2", "c2", d - 1, "c", 78, 0, 2, 1, 2, FALSE)
RawD(d) == Raw("t3", 103, "s2", "c2", 0, "d", 65, 0, 0, 1, 1, FALSE)
RawE(d) == Raw("t4", 104, "s1", "c1", d, "e", 95, 2, 2, 0, 3, TRUE)
RawF(d) == Raw("t5", 105, "s2", "c1", d - 1, "f", 50, 1, 1, 2, 2, FALSE)

\* what upstream offers a channel for a date, in the order of its tiers
Upstream(c, d) ==
    IF c = "overseas" THEN <<RawE(d), RawC(d), RawA(d)>>
    ELSE <<RawF(d), RawB(d), RawD(d)>>

\* the cache files a channel can have for a date: the first k of the articles
\* upstream offers, k at most n (none: the file is missing or its tiers are
\* empty)
RawLists(c, d, n) ==
    {SubSeq(Upstream(c, d), 1, k) :
        k \in {m \in 0..Len(Upstream(c, d)) : m <= n}}

\* target dates of a run and days the clock can show
Dates == {2, 33}

----------------------------------------------------------------------------
(* main: collect the day's articles *)

\* main's loop body without the two checks
CleanChannel_nofilter(raw, channel) ==
    [i \in 1..Len(raw) |-> clean_article(raw[i], channel)]

\* main's loop body for one channel: drop rejected and low-scored articles
CleanChannel(raw, channel) ==
    LET keep(a) == ~Get(a, "rejected", FALSE) /\ ~(Get(a, "score", 0) < MIN_SCORE)
        kept == SelectSeq(raw, keep)
    IN  [i \in 1..Len(kept) |-> clean_article(kept[i], channel)]

Collect(cache) ==
    CleanChannel(cache[CHANNELS[1]], CHANNELS[1])
        \o CleanChannel(cache[CHANNELS[2]], CHANNELS[2])

----------------------------------------------------------------------------
(* Snapshot and picks *)

NoFile == [exists |-> FALSE]

generate_json(articles, date) ==
    LET sorted_articles == SortByScoreDesc(articles)
        verdicts == {sorted_articles[i].verdict : i \in 1..Len(sorted_articles)}
        has(v) == LET is(a) == a.verdict = v IN Len(SelectSeq(sorted_articles, is))
    IN  [date |-> date,
         total |-> Len(sorted_articles),
         verdict_counts |-> [v \in verdicts |-> has(v)],
         articles |-> sorted_articles]

generate_daily_picks(articles, date) ==
    LET group(v) == LET is(a) == a.verdict = v
                    IN SortByScoreDesc(SelectSeq(articles, is))
        pick(a) == [title |-> a.title, link |-> a.link, source |-> a.source,
                    score |-> a.score]
    IN  [exists |-> TRUE, date |-> date,
         picks |-> [v \in Range(VERDICT_ORDER) |->
                      [i \in 1..Len(group(v)) |-> pick(group(v)[i])]]]

----------------------------------------------------------------------------
(* Cumulative source statistics.  The derived fields avg_score,             *)
(* must_read_rate and noise_rate are recomputed from the four counters on   *)
(* every update and are not stored in the model.                            *)

EmptyDict == [k \in {} |-> 0]

\* an entry created without the date of the run
NewSourceEntry_undated(date) ==
    [articles_count |-> 0, total_score |-> 0, must_read_count |-> 0,
     noise_count |-> 0, first_seen |-> 0, last_seen |-> 0]

NewSourceEntry(date) ==
    [articles_count |-> 0, total_score |-> 0, must_read_count |-> 0,
     noise_count |-> 0, first_seen |-> date, last_seen |-> date]

\* today's articles of one source: their scores and verdicts, in batch order
ScoresOf(articles, src) ==
    LET is(a) == a.source = src
        mine == SelectSeq(articles, is)
    IN  [i \in 1..Len(mine) |-> mine[i].score]

\* every verdict of the day taken twice
VerdictsOf_twice(articles, src) ==
    LET is(a) == a.source = src
        mine == SelectSeq(articles, is)
    IN  [i \in 1..Len(mine) |-> mine[i].verdict] \o
        [i \in 1..Len(mine) |-> mine[i].verdict]

VerdictsOf(articles, src) ==
    LET is(a) == a.source = src
        mine == SelectSeq(articles, is)
    IN  [i \in 1..Len(mine) |-> mine[i].verdict]

\* round(num / den, 1) in tenths.  round() rounds half to even; within the
\* counts reached here a value that ends in 5 at the second decimal is a
\* multiple of 1/4, which a float holds exactly
Round1(num, den) ==
    LET q == (10 * num) \div den
        r == (10 * num) % den
    IN  IF 2 * r < den THEN q
        ELSE IF 2 * r > den THEN q + 1
        ELSE IF q % 2 = 0 THEN q ELSE q + 1

\* the computed fields of an entry, in tenths
WithRates(s) ==
    [f \in DOMAIN s \cup {"avg_score", "must_read_rate", "noise_rate"} |->
        IF f = "avg_score" THEN Round1(s.total_score, s.articles_count)
        ELSE IF f = "must_read_rate"
             THEN Round1(s.must_read_count * 100, s.articles_count)
        ELSE IF f = "noise_rate"
             THEN Round1(s.noise_count * 100, s.articles_count)
        ELSE s[f]]

update_source_stats_overwrite(stats, articles, date) ==
    LET sources_data == Get(stats, "sources", EmptyDict)
        today == {articles[i].source : i \in 1..Len(articles)}
        merged(src) ==
            LET s == IF src \in DOMAIN sources_data THEN sources_data[src]
                     ELSE NewSourceEntry(date)
                scores == ScoresOf(articles, src)
                verdicts == VerdictsOf(articles, src)
            IN  WithRates([s EXCEPT
                  !.articles_count = Len(scores),
                  !.total_score = SumSeq(scores),
                  !.must_read_count = Count(verdicts, "must_read"),
                  !.noise_count = Count(verdicts, "noise")
                                    + Count(verdicts, "overhyped"),
                  !.last_seen = date])
    IN  [sources |-> [src \in DOMAIN sources_data \cup today |->
                        IF src \in today THEN merged(src) ELSE sources_data[src]],
         updated |-> date]

\* a merge that stamps every tracked source with the date of the run
update_source_stats_touchall(stats, articles, date) ==
    LET sources_data == Get(stats, "sources", EmptyDict)
        today == {articles[i].source : i \in 1..Len(articles)}
        merged(src) ==
            LET s == IF src \in DOMAIN sources_data THEN sources_data[src]
                     ELSE NewSourceEntry(date)
                scores == ScoresOf(articles, src)
                verdicts == VerdictsOf(articles, src)
            IN  WithRates([s EXCEPT
                  !.articles_count = @ + Len(scores),
                  !.total_score = @ + SumSeq(scores),
                  !.must_read_count = @ + Count(verdicts, "must_read"),
                  !.noise_count = @ + Count(verdicts, "noise")
                                    + Count(verdicts, "overhyped"),
                  !.last_seen = date])
    IN  [sources |-> [src \in DOMAIN sources_data \cup today |->
                        IF src \in today THEN merged(src)
                        ELSE [sources_data[src] EXCEPT !.last_seen = date]],
         updated |-> date]

update_source_stats(stats, articles, date) ==
    LET sources_data == Get(stats, "sources", EmptyDict)
        today == {articles[i].source : i \in 1..Len(articles)}
        merged(src) ==
            LET s == IF src \in DOMAIN sources_data THEN sources_data[src]
                     ELSE NewSourceEntry(date)
                scores == ScoresOf(articles, src)
                verdicts == VerdictsOf(articles, src)
            IN  WithRates([s EXCEPT
                  !.articles_count = @ + Len(scores),
                  !.total_score = @ + SumSeq(scores),
                  !.must_read_count = @ + Count(verdicts, "must_read"),
                  !.noise_count = @ + Count(verdicts, "noise")
                                    + Count(verdicts, "overhyped"),
                  !.last_seen = date])
    IN  [sources |-> [src \in DOMAIN sources_data \cup today |->
                        IF src \in today THEN merged(src) ELSE sources_data[src]],
         updated |-> date]

----------------------------------------------------------------------------
(* Append-only dataset.  A line of the JSONL file is a JSON object written  *)
(* by json.dumps, or text that json.loads rejects, or a blank line.         *)

JsonLine(a) == [kind |-> "json", entry |-> a]
GarbageLine == [kind |-> "garbage"]
BlankLine == [kind |-> "blank"]

\* a scan that gives up at the first line json.loads rejects
ExistingKeys_stopatgarbage(lines) ==
    {<<Get(lines[i].entry, "pub_date", 0), Get(lines[i].entry, "title", "")>> :
        i \in {j \in 1..Len(lines) :
                  /\ lines[j].kind = "json"
                  /\ \A k \in 1..j : lines[k].kind # "garbage"}}

\* the (pub_date, title) keys of the lines that parse
ExistingKeys(lines) ==
    {<<Get(lines[i].entry, "pub_date", 0), Get(lines[i].entry, "title", "")>> :
        i \in {j \in 1..Len(lines) : lines[j].kind = "json"}}

append_dataset_nokeycheck(lines, articles) ==
    LET sorted == SortByScoreDesc(articles)
    IN  lines \o [i \in 1..Len(sorted) |-> JsonLine(sorted[i])]

\* an append that stores the record of the batch over the line of its key
append_dataset_upsert(lines, articles) ==
    LET existing == ExistingKeys(lines)
        key(a) == <<Get(a, "pub_date", 0), Get(a, "title", "")>>
        absent(a) == key(a) \notin existing
        fresh == SelectSeq(SortByScoreDesc(articles), absent)
        hit(l) == {i \in 1..Len(articles) :
                     l.kind = "json" /\ key(articles[i]) = key(l.entry)}
    IN  [i \in 1..Len(lines) |->
            IF hit(lines[i]) = {} THEN lines[i]
            ELSE JsonLine(articles[CHOOSE k \in hit(lines[i]) : TRUE])]
           \o [i \in 1..Len(fresh) |-> JsonLine(fresh[i])]

\* an append that stops after the first record it writes
append_dataset_firstonly(lines, articles) ==
    LET existing == ExistingKeys(lines)
        absent(a) == <<Get(a, "pub_date", 0), Get(a, "title", "")>> \notin existing
        fresh == SelectSeq(SortByScoreDesc(articles), absent)
    IN  lines \o [i \in 1..(IF Len(fresh) > 0 THEN 1 ELSE 0) |-> JsonLine(fresh[i])]

append_dataset(lines, articles) ==
    LET existing == ExistingKeys(lines)
        absent(a) == <<Get(a, "pub_date", 0), Get(a, "title", "")>> \notin existing
        fresh == SelectSeq(SortByScoreDesc(articles), absent)
    IN  lines \o [i \in 1..Len(fresh) |-> JsonLine(fresh[i])]

----------------------------------------------------------------------------
(* Rolling RSS feed.  An <item> block is modelled by the values of its      *)
(* elements; pubDate 0 is the empty element <pubDate></pubDate>.  The score *)
(* is not part of the block: it is kept with the item only to state the     *)
(* ordering of the feed.                                                    *)
(* A pub_date is a string or null: 0 is the empty string, d in 1..999 the   *)
(* text "YYYY-MM-DD" of day d, 1000 + d the same day written without        *)
(* leading zeros ("2026-3-5"), a number above 2000 a text that is not a     *)
(* date of that format (words, an impossible day, a date with a time).      *)

\* JSON null
None == 0 - 1

\* a.get("pub_date", "") or ""
OrEmpty(s) == IF s = None THEN 0 ELSE s

\* a parse that takes every text but the empty one for a date
ParsesAsDate_any(s) == s # 0

\* strptime(pub_date, "%Y-%m-%d") succeeds
ParsesAsDate(s) == s \in 1..1999 /\ s # 1000

\* the day strptime returns for a text it accepts
Strptime(s) == IF s > 1000 THEN s - 1000 ELSE s

\* dt.strftime("%a, %d %b %Y 00:00:00 GMT"): the timestamp of a day; no
\* timestamp is the empty text or the text of a pub_date
Rfc822(day) == 10000 + day

RssItem(a, date) ==
    [title |-> Get(a, "title", ""),
     link |-> Get(a, "link", ""),
     desc |-> Get(a, "summary", ""),
     category |-> Get(a, "category", ""),
     pubDate |-> LET pub_date_str == OrEmpty(Get(a, "pub_date", 0))
                 IN  IF ParsesAsDate(pub_date_str)
                     THEN Rfc822(Strptime(pub_date_str))
                     ELSE Rfc822(Strptime(date)),
     source |-> Get(a, "source", ""),
     score |-> a.score]

\* re.search(r"<link>(.*?)</link>", item) matches
HasLink(item) == "link" \in DOMAIN item

\* the merge loop: keep an item unless its link was seen in an earlier item.
\* When the loop reaches the item at position i, seen_links holds the links
\* it started with and the links of the items before i
DedupByLink(items, seen_links) ==
    LET at(i) == [pos |-> i, item |-> items[i]]
        seen(i) == seen_links \cup
                      {items[j].link : j \in {k \in 1..(i - 1) : HasLink(items[k])}}
        keep(t) == ~HasLink(t.item) \/ t.item.link \notin seen(t.pos)
        kept == SelectSeq([i \in 1..Len(items) |-> at(i)], keep)
    IN  [i \in 1..Len(kept) |-> kept[i].item]

\* new_items without the quality filter
NewItems_unfiltered(articles, date) ==
    LET quality == SortByScoreDesc(articles)
    IN  [i \in 1..Len(quality) |-> RssItem(quality[i], date)]

\* the items a run puts before and after the merge loop
NewItems(articles, date) ==
    LET isq(a) == a.verdict \in {"must_read", "worth_reading"}
        quality == SortByScoreDesc(SelectSeq(articles, isq))
    IN  [i \in 1..Len(quality) |-> RssItem(quality[i], date)]

\* old_items without the repair of empty pubDate elements
FixedOld_norepair(feed, date) ==
    IF feed.exists THEN feed.items ELSE <<>>

FixedOld(feed, date) ==
    LET old_items == IF feed.exists THEN feed.items ELSE <<>>
    IN  [i \in 1..Len(old_items) |->
            IF old_items[i].pubDate = 0
            THEN [old_items[i] EXCEPT !.pubDate = Rfc822(Strptime(date))]
            ELSE old_items[i]]

generate_rss_nodedup(feed, articles, date) ==
    [exists |-> TRUE, lastBuildDate |-> date,
     items |-> Take(NewItems(articles, date) \o FixedOld(feed, date), FEED_LIMIT)]

generate_rss_nolimit(feed, articles, date) ==
    [exists |-> TRUE, lastBuildDate |-> date,
     items |-> DedupByLink(NewItems(articles, date) \o FixedOld(feed, date), {})]

\* a merge that puts the items of the existing feed before today's
generate_rss_oldfirst(feed, articles, date) ==
    [exists |-> TRUE, lastBuildDate |-> date,
     items |-> Take(DedupByLink(FixedOld(feed, date) \o NewItems(articles, date),
                                {}),
                    FEED_LIMIT)]

generate_rss(feed, articles, date) ==
    [exists |-> TRUE, lastBuildDate |-> date,
     items |-> Take(DedupByLink(NewItems(articles, date) \o FixedOld(feed, date),
                                {}),
                    FEED_LIMIT)]

----------------------------------------------------------------------------
(* Category index *)

\* load_recent_data(days): the articles of the snapshots of the last `days`
\* days counted back from the wall clock, today first
RECURSIVE LoadFrom(_, _, _, _)
LoadFrom(files, today, i, days) ==
    IF i >= days THEN <<>>
    ELSE (IF (today - i) \in DOMAIN files
          THEN Get(files[today - i], "articles", <<>>) ELSE <<>>)
         \o LoadFrom(files, today, i + 1, days)

load_recent_data(files, today, days) == LoadFrom(files, today, 0, days)

CategoryEntry(a) ==
    [title |-> a.title, link |-> a.link, source |-> Get(a, "source", ""),
     score |-> a.score, verdict |-> Get(a, "verdict", ""),
     pub_date |-> Get(a, "pub_date", 0)]

\* the by-category.json document of update_indexes
update_indexes(files, today, date) ==
    LET articles_30d == load_recent_data(files, today, CATEGORY_DAYS)
        good(a) == ~(Get(a, "score", 0) < CATEGORY_MIN_SCORE)
        kept == SelectSeq(articles_30d, good)
        cats == {Get(kept[i], "category", "Other") : i \in 1..Len(kept)}
        incat(c) == LET is(a) == Get(a, "category", "Other") = c
                    IN SortByScoreDesc(SelectSeq(kept, is))
    IN  [exists |-> TRUE, updated |-> date,
         categories |-> [c \in cats |->
                           [i \in 1..Len(incat(c)) |-> CategoryEntry(incat(c)[i])]]]

----------------------------------------------------------------------------
(* Trending index.  A word of a title is a stem in a given case: "lower"    *)
(* for a word written in lower case, "Cap" for a word whose first letter is *)
(* a capital.  Stems 1..23 are words of five letters, stem 100 is the stop  *)
(* word "the" and stem 101 the two-letter word "ai".  A term is a run of    *)
(* Chinese characters; terms are numbered.                                  *)

Word(stem, form) == [stem |-> stem, form |-> form]

WordLen(stem) == IF stem = 101 THEN 2 ELSE IF stem = 100 THEN 3 ELSE 5

STOP_WORDS == {100}

CN_KNOWN_TERMS == {1001, 1002}

\* re.findall(r"[A-Za-z][A-Za-z0-9]+", title): title t1 has 21 capitalised
\* words, "the", "ai" and one lower-case word; t2 shares the first word of
\* t1 and has the last word of t1 capitalised
TitleTokens(title) ==
    IF title = "t1"
    THEN [i \in 1..21 |-> Word(i, "Cap")]
            \o <<Word(100, "lower"), Word(101, "lower"), Word(22, "lower")>>
    ELSE IF title = "t2"
    THEN <<Word(1, "Cap"), Word(22, "Cap"), Word(100, "Cap"), Word(23, "lower")>>
    ELSE <<Word(1, "Cap")>>

\* the runs of Chinese characters that occur in the title; 1009 is not in
\* the curated vocabulary
TitleTerms(title) ==
    IF title = "t1" THEN {1001}
    ELSE IF title = "t2" THEN {1001, 1009}
    ELSE {}

extract_keywords(title) ==
    LET tokens == TitleTokens(title)
        kept == {i \in 1..Len(tokens) :
                    /\ WordLen(tokens[i].stem) >= MIN_WORD_LEN
                    /\ tokens[i].stem \notin STOP_WORDS}
    IN  {tokens[i] : i \in kept}
           \cup {Word(term, "term") : term \in {t \in CN_KNOWN_TERMS : t \in TitleTerms(title)}}

\* the order in which a set of strings is iterated depends on the hash seed
\* of the process: one of two orders here, that of Vocabulary or its reverse
HashSeeds == {"up", "down"}

Vocabulary ==
    [i \in 1..46 |-> Word((i + 1) \div 2, IF i % 2 = 1 THEN "lower" ELSE "Cap")]
        \o <<Word(1001, "term"), Word(1002, "term")>>

Reverse(s) == [i \in 1..Len(s) |-> s[Len(s) + 1 - i]]

IterationOrder(S, seed) ==
    LET in(w) == w \in S
    IN  SelectSeq(IF seed = "up" THEN Vocabulary ELSE Reverse(Vocabulary), in)

\* the titles of the articles upstream offers, and the empty title
Titles == {"t1", "t2", "t3", "t4", "t5", ""}

\* for kw in extract_keywords(a.get("title", "")): the keywords of each title
\* in the order the loop meets them, computed once for each title and seed
KeywordLoop ==
    [seed \in HashSeeds |->
        [t \in Titles |-> IterationOrder(extract_keywords(t), seed)]]

\* the keys of keyword_counts after the counting loops: a dict keeps its
\* keys in the order of their first insertion
RECURSIVE KeywordKeys(_, _)
KeywordKeys(articles, seed) ==
    IF articles = <<>> THEN <<>>
    ELSE LET earlier == KeywordKeys(SubSeq(articles, 1, Len(articles) - 1), seed)
             seen == Range(earlier)
             new(w) == w \notin seen
         IN  earlier \o
                SelectSeq(KeywordLoop[seed][Get(articles[Len(articles)], "title", "")],
                          new)

\* keyword_counts.items(): a keyword is counted once for every article whose
\* keyword set holds it
CountKeywords(articles, seed) ==
    LET keys == KeywordKeys(articles, seed)
        kws == [i \in 1..Len(articles) |->
                   Range(KeywordLoop[seed][Get(articles[i], "title", "")])]
        n(kw) == Cardinality({i \in 1..Len(articles) : kw \in kws[i]})
    IN  [k \in 1..Len(keys) |-> [keyword |-> keys[k], count |-> n(keys[k])]]

\* the items of count c or less, sorted by descending count, items of equal
\* count in their order in s
RECURSIVE SortFrom(_, _)
SortFrom(s, c) ==
    IF c < 1 THEN <<>>
    ELSE LET is(e) == e.count = c IN SelectSeq(s, is) \o SortFrom(s, c - 1)

\* sorted(keyword_counts.items(), key=lambda x: x[1], reverse=True)
SortByCountDesc(s) ==
    IF s = <<>> THEN <<>>
    ELSE SortFrom(s, CHOOSE c \in {e.count : e \in Range(s)} :
                        \A e \in Range(s) : e.count <= c)

\* the articles the trending index counts
Quality7d(files, today) ==
    LET good(a) == Get(a, "score", 0) >= TRENDING_MIN_SCORE
    IN  SelectSeq(load_recent_data(files, today, TRENDING_DAYS), good)

update_trending_nofilter(files, today, date, seed) ==
    LET quality_7d == Quality7d(files, today)
        sorted_kw == SortByCountDesc(CountKeywords(quality_7d, seed))
    IN  [exists |-> TRUE, updated |-> date, window |-> "7d",
         article_count |-> Len(quality_7d),
         trending |-> Take(sorted_kw, TRENDING_LIMIT)]

\* the trending.json document of update_indexes
update_trending(files, today, date, seed) ==
    LET quality_7d == Quality7d(files, today)
        sorted_kw == SortByCountDesc(CountKeywords(quality_7d, seed))
        often(e) == e.count >= TRENDING_MIN_COUNT
    IN  [exists |-> TRUE, updated |-> date, window |-> "7d",
         article_count |-> Len(quality_7d),
         trending |-> Take(SelectSeq(sorted_kw, often), TRENDING_LIMIT)]

----------------------------------------------------------------------------
(* Initial state: the files a first run can find *)

\* a feed left by earlier runs: full, newest first, its last two items
\* written before the feed carried timestamps
LegacyFeed ==
    [exists |-> TRUE, lastBuildDate |-> 1,
     items |-> [i \in 1..FEED_LIMIT |->
                  [title |-> "old", link |-> i, desc |-> "old",
                   category |-> "c1",
                   pubDate |-> IF i > FEED_LIMIT - 2 THEN 0 ELSE Rfc822(1),
                   source |-> "s1", score |-> 100 - i]]]

\* a first run on a fresh checkout finds no file; a run on an installation
\* with history finds the legacy feed and a log with damaged lines
InitFiles ==
    {[dataset |-> <<>>, rss |-> NoFile],
     [dataset |-> <<GarbageLine, BlankLine>>, rss |-> LegacyFeed]}

NoCall(file) == [n |-> 0, args |-> <<>>, pre |-> file, twice |-> FALSE]

\* hist.filtered: the latest run read a record that it did not keep (main
\* prints both counts for each channel).  hist.ordered: no merge of the
\* source stats so far had a date before the date of the merge before it.
\* the record of a call: its arguments, the file before it, and whether the
\* previous call of the same sink had the same arguments
Called(h, args, file) ==
    [n |-> h.n + 1, args |-> args, pre |-> file, twice |-> (h.args = args)]

Init ==
    /\ now = 2
    /\ pc = "idle"
    /\ runs = 0
    /\ date_str = 0
    /\ all_articles = <<>>
    /\ api = EmptyDict
    /\ daily_picks = NoFile
    /\ source_stats = EmptyDict
    /\ \E f \in InitFiles : dataset = f.dataset /\ rss = f.rss
    /\ by_category = NoFile
    /\ trending = NoFile
    /\ hist = [st |-> NoCall(source_stats), ds |-> NoCall(dataset),
               rss |-> NoCall(rss), idx |-> NoCall(by_category),
               filtered |-> FALSE, ordered |-> TRUE]
    /\ probe = EmptyDict
    /\ probe_verdict = "none"

----------------------------------------------------------------------------
(* Actions *)

\* the wall clock moves on between runs
Tick ==
    /\ pc = "idle"
    /\ \E d \in Dates : d > now /\ now' = d
    /\ UNCHANGED <<pc, runs, date_str, all_articles, api, daily_picks,
                   source_stats, dataset, rss, by_category, trending, hist, probe,
                   probe_verdict>>

\* main without the return at the empty check
StartRun_noreturn ==
    /\ pc = "idle"
    /\ runs < MaxRuns
    /\ \E d \in Dates :
       \E rawO \in RawLists("overseas", d, MaxBatch) :
       \E rawW \in RawLists("wechat-ai", d, MaxBatch) :
          /\ Len(rawO) + Len(rawW) <= MaxBatch
          /\ date_str' = d
          /\ all_articles' = Collect([c \in Range(CHANNELS) |->
                                        IF c = "overseas" THEN rawO ELSE rawW])
          /\ hist' = [hist EXCEPT
                        !.filtered = Len(all_articles') < Len(rawO) + Len(rawW)]
    /\ runs' = runs + 1
    /\ pc' = "json"
    /\ UNCHANGED <<now, api, daily_picks, source_stats, dataset, rss,
                   by_category, trending, probe, probe_verdict>>

\* main up to the empty check: --date d, and what the cache holds for d
StartRun ==
    /\ pc = "idle"
    /\ runs < MaxRuns
    /\ \E d \in Dates :
       \E rawO \in RawLists("overseas", d, MaxBatch) :
       \E rawW \in RawLists("wechat-ai", d, MaxBatch) :
          /\ Len(rawO) + Len(rawW) <= MaxBatch
          /\ date_str' = d
          /\ all_articles' = Collect([c \in Range(CHANNELS) |->
                                        IF c = "overseas" THEN rawO ELSE rawW])
          /\ hist' = [hist EXCEPT
                        !.filtered = Len(all_articles') < Len(rawO) + Len(rawW)]
    /\ runs' = runs + 1
    /\ pc' = IF all_articles' = <<>> THEN "idle" ELSE "json"
    /\ UNCHANGED <<now, api, daily_picks, source_stats, dataset, rss,
                   by_category, trending, probe, probe_verdict>>

GenerateJson ==
    /\ pc = "json"
    /\ api' = [d \in DOMAIN api \cup {date_str} |->
                 IF d = date_str THEN generate_json(all_articles, date_str)
                 ELSE api[d]]
    /\ pc' = "picks"
    /\ UNCHANGED <<now, runs, date_str, all_articles, daily_picks, source_stats,
                   dataset, rss, by_category, trending, hist, probe, probe_verdict>>

\* generate_daily_picks, then generate_markdown (a rendering, not modelled)
GenerateDailyPicks ==
    /\ pc = "picks"
    /\ daily_picks' = generate_daily_picks(all_articles, date_str)
    /\ pc' = "stats"
    /\ UNCHANGED <<now, runs, date_str, all_articles, api, source_stats,
                   dataset, rss, by_category, trending, hist, probe, probe_verdict>>

UpdateSourceStats ==
    /\ pc = "stats"
    /\ source_stats' = update_source_stats(source_stats, all_articles, date_str)
    /\ hist' = [hist EXCEPT
                  !.st = Called(@, <<all_articles, date_str>>, source_stats),
                  !.ordered = @ /\ date_str >= Get(source_stats, "updated", 0)]
    /\ pc' = "dataset"
    /\ UNCHANGED <<now, runs, date_str, all_articles, api, daily_picks, dataset,
                   rss, by_category, trending, probe, probe_verdict>>

\* append_dataset, then generate_csv (a rendering of the log, not modelled)
AppendDataset ==
    /\ pc = "dataset"
    /\ dataset' = append_dataset(dataset, all_articles)
    /\ hist' = [hist EXCEPT !.ds = Called(@, <<all_articles>>, dataset)]
    /\ pc' = "rss"
    /\ UNCHANGED <<now, runs, date_str, all_articles, api, daily_picks,
                   source_stats, rss, by_category, trending, probe, probe_verdict>>

\* main without the call of generate_rss
GenerateRss_skipped ==
    /\ pc = "rss"
    /\ UNCHANGED <<rss, hist>>
    /\ pc' = "indexes"
    /\ UNCHANGED <<now, runs, date_str, all_articles, api, daily_picks,
                   source_stats, dataset, by_category, trending, probe, probe_verdict>>

GenerateRss ==
    /\ pc = "rss"
    /\ rss' = generate_rss(rss, all_articles, date_str)
    /\ hist' = [hist EXCEPT !.rss = Called(@, <<all_articles, date_str>>, rss)]
    /\ pc' = "indexes"
    /\ UNCHANGED <<now, runs, date_str, all_articles, api, daily_picks,
                   source_stats, dataset, by_category, trending, probe, probe_verdict>>

\* update_indexes, then generate_folder_readmes (a rendering, not modelled)
UpdateIndexes ==
    /\ pc = "indexes"
    /\ by_category' = update_indexes(api, now, date_str)
    /\ \E seed \in HashSeeds :
          trending' = update_trending(api, now, date_str, seed)
    /\ hist' = [hist EXCEPT !.idx = Called(@, <<date_str, api>>, by_category)]
    /\ pc' = "idle"
    /\ UNCHANGED <<now, runs, date_str, all_articles, api, daily_picks,
                   source_stats, dataset, rss, probe, probe_verdict>>

Next ==
    \/ Tick
    \/ StartRun
    \/ GenerateJson
    \/ GenerateDailyPicks
    \/ UpdateSourceStats
    \/ AppendDataset
    \/ GenerateRss
    \/ UpdateIndexes

Spec == Init /\ [][Next]_vars

\* the statements of main after the empty check
RunStep ==
    \/ GenerateJson
    \/ GenerateDailyPicks
    \/ UpdateSourceStats
    \/ AppendDataset
    \/ GenerateRss
    \/ UpdateIndexes

\* the statement that follows each statement of main after the empty check
Successor ==
    [json |-> "picks", picks |-> "stats", stats |-> "dataset",
     dataset |-> "rss", rss |-> "indexes", indexes |-> "idle"]

\* control passes from a statement to the one that follows it
Advance == pc \in DOMAIN Successor /\ pc' = Successor[pc]

\* a run that has started goes on: main is straight-line code whose loops
\* run over finite lists, and nothing in it waits.  Control moves only with
\* a step of RunStep, so this is weak fairness of RunStep
SpecLive == Spec /\ WF_pc(Advance)

----------------------------------------------------------------------------
(* The classifier on its own: every combination of score and dimensions,    *)
(* each of them present or missing                                          *)

ProbeScores == {0, 59, 60, 69, 70, 74, 75, 84, 85, 100}
ProbeDims == 0..3
ProbeKeys == {"score", "novelty", "depth", "noise", "credibility"}

ProbeInputs ==
    {[k \in K |-> full[k]] :
        K \in SUBSET ProbeKeys,
        full \in [score : ProbeScores, novelty : ProbeDims, depth : ProbeDims,
                  noise : ProbeDims, credibility : ProbeDims]}

InitVerdict ==
    /\ now = 2
    /\ pc = "idle"
    /\ runs = 0
    /\ date_str = 0
    /\ all_articles = <<>>
    /\ api = EmptyDict
    /\ daily_picks = NoFile
    /\ source_stats = EmptyDict
    /\ dataset = <<>>
    /\ rss = NoFile
    /\ by_category = NoFile
    /\ trending = NoFile
    /\ hist = [st |-> NoCall(source_stats), ds |-> NoCall(dataset),
               rss |-> NoCall(rss), idx |-> NoCall(by_category),
               filtered |-> FALSE, ordered |-> TRUE]
    /\ probe \in ProbeInputs
    /\ probe_verdict = "none"

Classify ==
    /\ probe_verdict = "none"
    /\ probe_verdict' = assign_verdict(probe)
    /\ UNCHANGED <<now, pc, runs, date_str, all_articles, api, daily_picks,
                   source_stats, dataset, rss, by_category, trending, hist, probe>>

NextVerdict == Classify

SpecVerdict == InitVerdict /\ [][NextVerdict]_vars

----------------------------------------------------------------------------
(* The timestamp of a new feed item on its own: one qualifying record with  *)
(* every form of pub_date, merged into an empty feed                        *)

\* null, the empty text, two days in both spellings, and three texts that
\* are not dates
StampPubDates == {None, 0, 5, 1005, 40, 1040, 2001, 2002, 2003}

StampDates == {2, 5, 33}

\* records of verdict must_read and worth_reading, with each pub_date and
\* without the key
StampInputs ==
    LET full == {Raw("t1", 101, "s1", "c1", pd, "a", sc, 2, 2, 0, 3, FALSE) :
                    pd \in StampPubDates, sc \in {80, 90}}
    IN  full \cup {[k \in DOMAIN r \ {"pub_date"} |-> r[k]] : r \in full}

InitStamp ==
    /\ now = 2
    /\ pc = "idle"
    /\ runs = 0
    /\ date_str \in StampDates
    /\ all_articles = <<>>
    /\ api = EmptyDict
    /\ daily_picks = NoFile
    /\ source_stats = EmptyDict
    /\ dataset = <<>>
    /\ rss = NoFile
    /\ by_category = NoFile
    /\ trending = NoFile
    /\ hist = [st |-> NoCall(source_stats), ds |-> NoCall(dataset),
               rss |-> NoCall(rss), idx |-> NoCall(by_category),
               filtered |-> FALSE, ordered |-> TRUE]
    /\ probe \in StampInputs
    /\ probe_verdict = "none"

\* generate_rss for the one record, cleaned as main cleans it
Stamp ==
    /\ probe_verdict = "none"
    /\ all_articles' = <<clean_article(probe, CHANNELS[1])>>
    /\ rss' = generate_rss(rss, all_articles', date_str)
    /\ probe_verdict' = "stamped"
    /\ UNCHANGED <<now, pc, runs, date_str, api, daily_picks, source_stats,
                   dataset, by_category, trending, hist, probe>>

NextStamp == Stamp

SpecStamp == InitStamp /\ [][NextStamp]_vars

----------------------------------------------------------------------------
(* Properties *)

JsonLines(lines) == {i \in 1..Len(lines) : lines[i].kind = "json"}

KeyOfLine(line) == <<Get(line.entry, "pub_date", 0), Get(line.entry, "title", "")>>

SourcesOf(stats) == Get(stats, "sources", EmptyDict)

Counters == {"articles_count", "total_score", "must_read_count", "noise_count"}

\* C1: appending the same record set twice in succession leaves the log as
\* it was after the first append: the second call writes no line
C1_AppendIdempotent == hist.ds.twice => dataset = hist.ds.pre

\* a record set was appended twice in succession and its lines are in the log
C1_Witness ==
    /\ hist.ds.twice
    /\ \E i \in JsonLines(dataset) : dataset[i].entry \in Range(hist.ds.args[1])

\* C2: no two lines of the log share the same (pub_date, title) pair, also
\* when one batch holds two records with the same pair
C2_NaturalKeyUnique ==
    \A i, j \in JsonLines(dataset) :
        i # j => KeyOfLine(dataset[i]) # KeyOfLine(dataset[j])

\* C3: merging the same record set for the same target date twice in
\* succession yields the feed of the first merge, items and order
C3_RssIdempotent == hist.rss.twice => rss = hist.rss.pre

\* the same record set was merged twice and it put an item into the feed
C3_Witness ==
    /\ hist.rss.twice
    /\ \E i \in 1..Len(rss.items) :
          \E k \in 1..Len(hist.rss.args[1]) :
             rss.items[i].link = hist.rss.args[1][k].link

\* C4: after any merge the feed holds at most 50 items and no two items
\* have the same link
C4_FeedBounded ==
    hist.rss.n > 0 =>
        /\ Len(rss.items) <= 50
        /\ LET linked == {i \in 1..Len(rss.items) : HasLink(rss.items[i])}
           IN  Cardinality({rss.items[i].link : i \in linked}) = Cardinality(linked)

\* a merge into the full feed: today's item is first and the oldest item
\* has been dropped
C4_Witness ==
    /\ hist.rss.n > 0
    /\ Len(rss.items) = 50
    /\ rss.items[1].link > 100
    /\ \A i \in 1..Len(rss.items) : rss.items[i].link # 50

\* C5: after any merge the items are in descending order of timestamp, and
\* items of the same day in descending order of score
C5_FeedOrdered ==
    hist.rss.n > 0 =>
        \A i, j \in 1..Len(rss.items) :
            i < j =>
                \/ rss.items[i].pubDate > rss.items[j].pubDate
                \/ /\ rss.items[i].pubDate = rss.items[j].pubDate
                   /\ rss.items[i].score >= rss.items[j].score

\* C6: two update_source_stats calls in succession with the same record set
\* and the same date leave every source's four counters as they were after
\* the first call
C6_StatsIdempotent ==
    hist.st.twice =>
        \A src \in DOMAIN SourcesOf(source_stats) :
            /\ src \in DOMAIN SourcesOf(hist.st.pre)
            /\ \A c \in Counters :
                  SourcesOf(source_stats)[src][c] = SourcesOf(hist.st.pre)[src][c]

\* C7: from one state to the next no source is dropped and none of a
\* source's four counters decreases
C7_CountersMonotonic ==
    [][\A src \in DOMAIN SourcesOf(source_stats) :
          /\ src \in DOMAIN SourcesOf(source_stats')
          /\ \A c \in Counters :
                SourcesOf(source_stats')[src][c] >= SourcesOf(source_stats)[src][c]
      ]_vars

\* a source was merged by two calls, the second with fewer of its articles
\* than the first had counted
C7_Witness ==
    /\ hist.st.n >= 2
    /\ \E src \in DOMAIN SourcesOf(hist.st.pre) :
          /\ src \in DOMAIN SourcesOf(source_stats)
          /\ SourcesOf(source_stats)[src].articles_count
                > SourcesOf(hist.st.pre)[src].articles_count
          /\ Len(ScoresOf(hist.st.args[1], src))
                < SourcesOf(hist.st.pre)[src].articles_count

\* the rules of the classifier in their order; a missing value counts as 0
RuleHolds(i, a) ==
    LET score == Get(a, "score", 0)
        novelty == Get(a, "novelty", 0)
        depth == Get(a, "depth", 0)
        noise == Get(a, "noise", 0)
        credibility == Get(a, "credibility", 0)
    IN  CASE i = 1 -> score >= 85
          [] i = 2 -> score \in 75..84 /\ (novelty >= 2 \/ depth >= 2)
          [] i = 3 -> score \in 60..69 /\ noise <= 1
          [] i = 4 -> score >= 70 /\ novelty = 0 /\ credibility <= 1
          [] i = 5 -> TRUE

RuleLabels == <<"must_read", "worth_reading", "noise", "overhyped", "neutral">>

FirstRule(a) == CHOOSE i \in 1..5 : RuleHolds(i, a) /\ \A j \in 1..(i - 1) : ~RuleHolds(j, a)

\* C8: assign_verdict returns one of the five verdicts, the label of the
\* first rule that matches; score 85 with novelty 0 gives must_read
C8_FirstMatchWins ==
    probe_verdict # "none" =>
        /\ probe_verdict \in Range(VERDICT_ORDER)
        /\ probe_verdict = RuleLabels[FirstRule(probe)]
        /\ (Get(probe, "score", 0) = 85 /\ Get(probe, "novelty", 0) = 0)
              => probe_verdict = "must_read"

\* score 85 with novelty 0 and low credibility, which rule 4 would also
\* match, was classified
C8_Witness ==
    /\ probe_verdict = "must_read"
    /\ Get(probe, "score", 0) = 85
    /\ Get(probe, "novelty", 0) = 0
    /\ Get(probe, "credibility", 0) <= 1

\* C9: every entry of the category index has score >= 75 and a publication
\* date within the 30 days that end at the run's target date
C9_CategoryWindow ==
    by_category.exists =>
        \A c \in DOMAIN by_category.categories :
            \A i \in 1..Len(by_category.categories[c]) :
                LET e == by_category.categories[c][i]
                IN  /\ e.score >= 75
                    /\ e.pub_date \in (by_category.updated - 29)..by_category.updated

\* C10: two runs of update_indexes in succession with the same target date
\* over the same snapshots produce the same category index
C10_IndexDeterministic == hist.idx.twice => by_category = hist.idx.pre

\* C11: when a run has finished, the category index it wrote holds every
\* record of score >= 75 of the snapshot of the run's target date
C11_IndexHoldsTodaysSnapshot ==
    (pc = "idle" /\ by_category.exists /\ by_category.updated = date_str) =>
        /\ date_str \in DOMAIN api
        /\ \A i \in 1..Len(api[date_str].articles) :
              LET a == api[date_str].articles[i]
              IN  a.score >= 75 =>
                     /\ a.category \in DOMAIN by_category.categories
                     /\ CategoryEntry(a) \in Range(by_category.categories[a.category])

\* the number of articles of the 7-day window, of score >= 70, whose title
\* yields the keyword
WindowKeywords(arts) ==
    [i \in 1..Len(arts) |-> extract_keywords(Get(arts[i], "title", ""))]

WindowCount(kw, sets) == Cardinality({i \in 1..Len(sets) : kw \in sets[i]})

TrendingShape(doc, files, today) ==
    LET list == doc.trending
        emitted == {list[i].keyword : i \in 1..Len(list)}
        sets == WindowKeywords(Quality7d(files, today))
        least == IF list = <<>> THEN 0 ELSE list[Len(list)].count
    IN  /\ Len(list) <= 20
        /\ \A i \in 1..Len(list) :
              /\ list[i].count >= 2
              /\ list[i].count = WindowCount(list[i].keyword, sets)
        /\ \A i \in 1..(Len(list) - 1) : list[i].count >= list[i + 1].count
        /\ \A kw \in (UNION Range(sets)) \ emitted :
              WindowCount(kw, sets) >= 2 =>
                 /\ Len(list) = 20
                 /\ least >= WindowCount(kw, sets)

\* C12: the trending list written by update_indexes has at most 20 entries,
\* each with its window count, which is >= 2, in non-increasing order of
\* count, and omits a keyword of count >= 2 only for keywords that count at
\* least as much
C12_TrendingShape ==
    [][pc = "indexes" => TrendingShape(trending', api, now)]_vars

\* a window with more than 20 keywords of count >= 2: the list is cut at 20,
\* starts with a keyword counted 3 times and ends with one counted twice
C12_Witness ==
    /\ trending.exists
    /\ Len(trending.trending) = 20
    /\ trending.trending[1].count = 3
    /\ trending.trending[20].count = 2
    /\ trending.article_count = 3

\* the sinks of a run: the snapshots, the picks, the source stats, the
\* dataset, the feed and the two indexes
Sinks == <<api, daily_picks, source_stats, dataset, rss, by_category, trending>>

\* C13: a run that collects no article ends at once, and a step writes a
\* sink only in a run that collected articles: the snapshot of the date,
\* the picks, the source stats, the dataset, the feed and both indexes stay
\* as they were before the run
C13_EmptyRunWritesNothing ==
    [][/\ (runs' = runs + 1 /\ all_articles' = <<>>) =>
              (pc' = "idle" /\ Sinks' = Sinks)
       /\ Sinks' # Sinks => (all_articles # <<>> /\ all_articles' = all_articles)]_vars

\* a run of a date that has a snapshot read only records that it dropped,
\* after a run that published: the snapshot still holds its articles
C13_Witness ==
    /\ runs >= 2
    /\ pc = "idle"
    /\ all_articles = <<>>
    /\ hist.filtered
    /\ date_str \in DOMAIN api
    /\ api[date_str].articles # <<>>
    /\ rss.exists

RefreshedJson ==
    /\ date_str \in DOMAIN api
    /\ api[date_str] = generate_json(all_articles, date_str)

RefreshedPicks == daily_picks = generate_daily_picks(all_articles, date_str)

RefreshedStats ==
    /\ hist.st.args = <<all_articles, date_str>>
    /\ source_stats = update_source_stats(hist.st.pre, all_articles, date_str)

RefreshedDataset ==
    /\ hist.ds.args = <<all_articles>>
    /\ dataset = append_dataset(hist.ds.pre, all_articles)

RefreshedRss ==
    /\ hist.rss.args = <<all_articles, date_str>>
    /\ rss = generate_rss(hist.rss.pre, all_articles, date_str)

RefreshedIndexes ==
    /\ hist.idx.args = <<date_str, api>>
    /\ by_category.exists /\ by_category.updated = date_str
    /\ trending.exists /\ trending.updated = date_str

\* the steps of a run follow one another in the order snapshot, picks,
\* source stats, dataset, feed, indexes, and each calls its sink once
RunOrder ==
    /\ (runs' = runs + 1 /\ all_articles' # <<>>) => pc' = "json"
    /\ pc = "json" => pc' = "picks"
    /\ pc = "picks" => pc' = "stats"
    /\ pc = "stats" => (pc' = "dataset" /\ hist'.st.n = hist.st.n + 1)
    /\ pc = "dataset" => (pc' = "rss" /\ hist'.ds.n = hist.ds.n + 1)
    /\ pc = "rss" => (pc' = "indexes" /\ hist'.rss.n = hist.rss.n + 1)
    /\ pc = "indexes" => (pc' = "idle" /\ hist'.idx.n = hist.idx.n + 1)

\* the sinks a run has passed hold what the run wrote for its date
RunSoFar ==
    /\ pc \in {"picks", "stats", "dataset", "rss", "indexes"} => RefreshedJson
    /\ pc \in {"stats", "dataset", "rss", "indexes"} => RefreshedPicks
    /\ pc \in {"dataset", "rss", "indexes"} => RefreshedStats
    /\ pc \in {"rss", "indexes"} => RefreshedDataset
    /\ pc = "indexes" => RefreshedRss

RunDone ==
    /\ pc = "idle"
    /\ RefreshedJson /\ RefreshedPicks /\ RefreshedStats
    /\ RefreshedDataset /\ RefreshedRss /\ RefreshedIndexes

\* C14: a run that collected at least one article ends, after it has written
\* the snapshot, the picks, the source stats, the dataset, the feed and the
\* indexes of its date, in that order and none of them skipped
C14_RunCompletes ==
    /\ [][RunOrder]_vars
    /\ []RunSoFar
    /\ (pc = "json") ~> RunDone

\* a second run has written all its sinks
C14_Witness ==
    /\ runs = 2
    /\ all_articles # <<>>
    /\ hist.idx.n = 2 /\ hist.rss.n = 2 /\ hist.ds.n = 2 /\ hist.st.n = 2
    /\ RunDone

\* the sources of today's batch
TodaySources == {all_articles[i].source : i \in 1..Len(all_articles)}

\* C15: a merge of update_source_stats leaves the entry of every source
\* without an article in today's batch as it was (counters, rates,
\* first_seen, last_seen) and removes no entry; no other step writes the
\* source stats
C15_StatsFrame ==
    [][LET old == Get(source_stats, "sources", EmptyDict)
           new == Get(source_stats', "sources", EmptyDict)
       IN  /\ DOMAIN old \subseteq DOMAIN new
           /\ \A src \in DOMAIN old \ TodaySources : new[src] = old[src]
           /\ pc # "stats" => source_stats' = source_stats]_vars

\* after a merge a source tracked before has no article in the batch and
\* keeps its entry with its rates, while the entry of another source changed
C15_Witness ==
    /\ pc = "dataset"
    /\ hist.st.n = 2
    /\ \E src \in DOMAIN Get(hist.st.pre, "sources", EmptyDict) :
          /\ src \notin TodaySources
          /\ source_stats.sources[src] = hist.st.pre.sources[src]
          /\ source_stats.sources[src].last_seen # date_str
          /\ source_stats.sources[src].avg_score > 0
    /\ \E src \in TodaySources :
          /\ src \in DOMAIN hist.st.pre.sources
          /\ source_stats.sources[src] # hist.st.pre.sources[src]

\* C16: a merge sets last_seen of every source of its batch to its date and
\* leaves the others; first_seen is the date of the merge that created the
\* entry and never changes afterwards; as long as no merge has a date
\* before the date of the merge before it, no last_seen decreases
C16_StatsDates ==
    [][pc = "stats" =>
         LET old == Get(source_stats, "sources", EmptyDict)
             new == Get(source_stats', "sources", EmptyDict)
         IN  /\ \A src \in TodaySources :
                   /\ new[src].last_seen = date_str
                   /\ new[src].first_seen =
                         IF src \in DOMAIN old THEN old[src].first_seen
                         ELSE date_str
             /\ \A src \in DOMAIN old \ TodaySources :
                   /\ new[src].last_seen = old[src].last_seen
                   /\ new[src].first_seen = old[src].first_seen
             /\ hist'.ordered =>
                   \A src \in DOMAIN old :
                      new[src].last_seen >= old[src].last_seen]_vars

\* two merges with increasing dates: a source of both batches has the first
\* date as first_seen and the second as last_seen, and a source of the
\* first batch only keeps the first date as last_seen
C16_Witness ==
    /\ pc = "dataset"
    /\ hist.st.n = 2
    /\ hist.ordered
    /\ hist.st.pre.updated < date_str
    /\ \E src \in TodaySources :
          /\ src \in DOMAIN hist.st.pre.sources
          /\ source_stats.sources[src].first_seen = hist.st.pre.updated
          /\ source_stats.sources[src].last_seen = date_str
    /\ \E src \in DOMAIN hist.st.pre.sources \ TodaySources :
          source_stats.sources[src].last_seen = hist.st.pre.updated

\* the records upstream offers that main keeps, as main cleans them
Eligible ==
    UNION {{clean_article(Upstream(c, d)[i], c) :
              i \in {j \in 1..Len(Upstream(c, d)) :
                        /\ ~Upstream(c, d)[j].rejected
                        /\ Upstream(c, d)[j].score >= MIN_SCORE}} :
           c \in Range(CHANNELS), d \in Dates}

\* the links of the records upstream offers that are rejected or score less
\* than 60
DroppedLinks ==
    UNION {{Upstream(c, d)[i].link :
              i \in {j \in 1..Len(Upstream(c, d)) :
                        \/ Upstream(c, d)[j].rejected
                        \/ Upstream(c, d)[j].score < MIN_SCORE}} :
           c \in Range(CHANNELS), d \in Dates}

\* C17: no record that is rejected or scores less than 60 is classified or
\* reaches a sink: the articles of a run (the input of the stats and of the
\* feed), the snapshots and the lines of the dataset are records main kept,
\* with a score of 60 or more, and no pick, feed item or index entry is made
\* from a dropped record
C17_NormalizerFilter ==
    /\ \A a \in Range(all_articles) : a \in Eligible /\ a.score >= MIN_SCORE
    /\ \A d \in DOMAIN api :
          \A a \in Range(api[d].articles) : a \in Eligible /\ a.score >= MIN_SCORE
    /\ \A l \in Range(dataset) :
          l.kind = "json" => (l.entry \in Eligible /\ l.entry.score >= MIN_SCORE)
    /\ hist.st.n > 0 => \A a \in Range(hist.st.args[1]) : a \in Eligible
    /\ hist.rss.n > 0 => \A a \in Range(hist.rss.args[1]) : a \in Eligible
    /\ daily_picks.exists =>
          \A v \in DOMAIN daily_picks.picks :
             \A e \in Range(daily_picks.picks[v]) : e.link \notin DroppedLinks
    /\ rss.exists => \A item \in Range(rss.items) : item.link \notin DroppedLinks
    /\ DOMAIN Get(source_stats, "sources", EmptyDict) \subseteq
          {a.source : a \in Eligible}
    /\ by_category.exists =>
          \A c \in DOMAIN by_category.categories :
             \A e \in Range(by_category.categories[c]) :
                e.link \notin DroppedLinks
    /\ trending.exists => trending.article_count <= Cardinality(Eligible)

\* a run read a record that it dropped and went through all its sinks with
\* the records it kept
C17_Witness ==
    /\ hist.filtered
    /\ pc = "idle"
    /\ all_articles # <<>>
    /\ hist.idx.n > 0
    /\ JsonLines(dataset) # {}

\* the sequence the latest merge worked on: today's items, then the items of
\* the feed it found
MergeInput ==
    NewItems(hist.rss.args[1], hist.rss.args[2])
        \o FixedOld(hist.rss.pre, hist.rss.args[2])

\* the positions of s whose link does not occur at an earlier position
FirstOccurrences(s) ==
    {i \in 1..Len(s) :
        HasLink(s[i]) =>
           \A j \in 1..(i - 1) : HasLink(s[j]) => s[j].link # s[i].link}

\* C18 (stated where the merge has just run, at the step after it; the feed
\* changes nowhere else): the feed after a merge is the first 50 items of (today's qualifying
\* items by descending score, then the backfilled items of the existing
\* feed) without the items whose link occurred earlier in that sequence;
\* today's rendering of a link wins and stands before every carried-over
\* item
C18_FeedMerge ==
    pc = "indexes" =>
       LET seq == MergeInput
           today == Len(NewItems(hist.rss.args[1], hist.rss.args[2]))
           P == FirstOccurrences(seq)
           rank(i) == Cardinality({j \in P : j <= i})
       IN  /\ Len(rss.items) =
                 IF Cardinality(P) <= FEED_LIMIT THEN Cardinality(P) ELSE FEED_LIMIT
           /\ \A i \in P : rank(i) <= FEED_LIMIT => rss.items[rank(i)] = seq[i]
           /\ \A i \in 1..today : \A j \in (today + 1)..Len(seq) :
                 /\ seq[i].score >= seq[IF i < today THEN i + 1 ELSE i].score
                 /\ seq[i].link = seq[j].link =>
                       /\ j \notin P
                       /\ i \in P =>
                             \E k \in 1..Len(rss.items) :
                                k <= today /\ rss.items[k] = seq[i]

\* a merge found in the feed a link of today's batch in an older rendering,
\* put today's rendering first, and cut the sequence at 50
C18_Witness ==
    /\ pc = "indexes"
    /\ Cardinality(FirstOccurrences(MergeInput)) > FEED_LIMIT
    /\ Len(rss.items) = FEED_LIMIT
    /\ \E i \in 1..Len(hist.rss.pre.items) :
          /\ hist.rss.pre.items[i].link = rss.items[1].link
          /\ hist.rss.pre.items[i] # rss.items[1]
    /\ rss.items[2].link # rss.items[1].link
    /\ rss.items[2] = NewItems(hist.rss.args[1], hist.rss.args[2])[2]

\* the verdicts the feed is open to
FeedVerdicts == {"must_read", "worth_reading"}

\* the items of the feed that the latest merge did not find in the feed
AddedItems ==
    Range(rss.items) \ Range(FixedOld(hist.rss.pre, hist.rss.args[2]))

\* C19 (stated at the step after the merge): every item a merge adds to the
\* feed is the rendering of an article of today's batch whose verdict is
\* must_read or worth_reading, and an article with another verdict gives no
\* item
C19_FeedAdmitsQuality ==
    pc = "indexes" =>
       /\ \A item \in AddedItems :
             \E a \in Range(all_articles) :
                a.verdict \in FeedVerdicts /\ item = RssItem(a, date_str)
       /\ \A a \in Range(all_articles) :
             a.verdict \notin FeedVerdicts =>
                RssItem(a, date_str) \notin AddedItems

\* a merge of a batch with a qualifying article and one that does not
\* qualify: the first has an item in the feed, the link of the second is
\* nowhere in the feed
C19_Witness ==
    /\ pc = "indexes"
    /\ \E a \in Range(all_articles) :
          /\ a.verdict \notin FeedVerdicts
          /\ \A item \in Range(rss.items) : item.link # a.link
    /\ \E a \in Range(all_articles) :
          /\ a.verdict \in FeedVerdicts
          /\ RssItem(a, date_str) \in AddedItems

\* C20: the log after a step has the log before it as a prefix, line for
\* line (damaged and blank lines too), and every line added is a JSON line
\* whose key was on no line before: a record whose key is in the log never
\* replaces the stored version or adds a second one
C20_DatasetAppendOnly ==
    [][/\ Len(dataset') >= Len(dataset)
       /\ SubSeq(dataset', 1, Len(dataset)) = dataset
       /\ \A i \in (Len(dataset) + 1)..Len(dataset') :
             /\ dataset'[i].kind = "json"
             /\ KeyOfLine(dataset'[i]) \notin ExistingKeys(dataset)]_vars

\* an append found the key of an article of the batch on a line that holds
\* another version of it, and a damaged line: both are where they were
C20_Witness ==
    /\ pc = "rss"
    /\ hist.ds.n > 0
    /\ SubSeq(dataset, 1, Len(hist.ds.pre)) = hist.ds.pre
    /\ \E i \in 1..Len(hist.ds.pre) : hist.ds.pre[i] = GarbageLine
    /\ \E i \in JsonLines(hist.ds.pre) : \E a \in Range(all_articles) :
          /\ KeyOfLine(hist.ds.pre[i]) = KeyOfLine(JsonLine(a))
          /\ hist.ds.pre[i].entry.score # a.score
          /\ dataset[i] = hist.ds.pre[i]

\* the lines the latest append added to the log it found
AppendedLines == SubSeq(dataset, Len(hist.ds.pre) + 1, Len(dataset))

\* the keys on the lines of the log the latest append found that parse
WellFormedKeys == {KeyOfLine(hist.ds.pre[i]) : i \in JsonLines(hist.ds.pre)}

\* C21: an append to a log with lines that do not parse as JSON completes,
\* and the lines it adds are the records of the batch whose key is on no
\* well-formed line of the log, each of them once and nothing else
C21_MalformedLinesSkipped ==
    hist.ds.n > 0 =>
       LET batch == hist.ds.args[1]
           absent == {i \in 1..Len(batch) :
                        KeyOfLine(JsonLine(batch[i])) \notin WellFormedKeys}
       IN  /\ Len(dataset) = Len(hist.ds.pre) + Cardinality(absent)
           /\ \A i \in absent :
                 \E k \in 1..Len(AppendedLines) :
                    AppendedLines[k] = JsonLine(batch[i])
           /\ \A k \in 1..Len(AppendedLines) :
                 \E i \in absent : AppendedLines[k] = JsonLine(batch[i])

\* an append found a damaged line and, after it, a well-formed line with the
\* key of a record of the batch: it added another record of the batch and not
\* that one
C21_Witness ==
    /\ pc = "rss"
    /\ \E g \in 1..Len(hist.ds.pre) : \E i \in JsonLines(hist.ds.pre) :
          /\ hist.ds.pre[g] = GarbageLine
          /\ g < i
          /\ \E a \in Range(all_articles) :
                KeyOfLine(hist.ds.pre[i]) = KeyOfLine(JsonLine(a))
    /\ Len(dataset) > Len(hist.ds.pre)
    /\ Len(dataset) < Len(hist.ds.pre) + Len(all_articles)

\* the items of the feed the latest merge found
OldItems == IF hist.rss.pre.exists THEN hist.rss.pre.items ELSE <<>>

\* the items of the feed that are not renderings of today's batch
CarriedOver ==
    Range(rss.items) \ Range(NewItems(hist.rss.args[1], hist.rss.args[2]))

\* C22 (stated at the step after the merge): no item of the feed has an
\* empty pubDate; an item carried over from the existing feed is the
\* existing item as it was if that had a timestamp, and the existing item
\* with the timestamp of the date of the run if it had none
C22_TimestampRepair ==
    pc = "indexes" =>
       /\ \A item \in Range(rss.items) : item.pubDate # 0
       /\ \A item \in CarriedOver :
             \E old \in Range(OldItems) :
                \/ old.pubDate # 0 /\ item = old
                \/ /\ old.pubDate = 0
                   /\ item = [old EXCEPT !.pubDate = Rfc822(Strptime(date_str))]
       /\ \A old \in Range(OldItems) : \A item \in CarriedOver :
             (old.pubDate # 0 /\ item.link = old.link) => item = old

\* the merge found an item without a timestamp and one with a timestamp of
\* another day: the feed holds the first with the timestamp of the date of
\* the run and the second as it was
C22_Witness ==
    /\ pc = "indexes"
    /\ \E old \in Range(OldItems) :
          /\ old.pubDate = 0
          /\ [old EXCEPT !.pubDate = Rfc822(Strptime(date_str))] \in Range(rss.items)
    /\ \E old \in Range(OldItems) :
          /\ old.pubDate # 0
          /\ old.pubDate # Rfc822(Strptime(date_str))
          /\ old \in Range(rss.items)

\* the day a pub_date text names, for the texts that are dates
DayNamed == (5 :> 5) @@ (1005 :> 5) @@ (40 :> 40) @@ (1040 :> 40)

TrackedSources == Get(source_stats, "sources", EmptyDict)

\* C24: after any sequence of merges that starts from empty statistics, every
\* tracked source has counted at least one article, and its must-read count
\* and noise count together do not exceed its article count
C24_CountsConsistent ==
    \A src \in DOMAIN TrackedSources :
       /\ TrackedSources[src].articles_count >= 1
       /\ TrackedSources[src].must_read_count + TrackedSources[src].noise_count
             <= TrackedSources[src].articles_count

\* after two merges one source has a must-read article among several
\* articles, and another has noise among several articles
C24_Witness ==
    /\ hist.st.n = 2
    /\ \E src \in DOMAIN TrackedSources :
          /\ TrackedSources[src].must_read_count >= 1
          /\ TrackedSources[src].must_read_count < TrackedSources[src].articles_count
    /\ \E src \in DOMAIN TrackedSources :
          /\ TrackedSources[src].noise_count >= 1
          /\ TrackedSources[src].noise_count < TrackedSources[src].articles_count

\* the (pub_date, title) keys of the well-formed lines of a log
LogKeys(lines) == {KeyOfLine(lines[i]) : i \in JsonLines(lines)}

BatchKeys(articles) == {KeyOfLine(JsonLine(articles[i])) : i \in 1..Len(articles)}

\* C25: every call of append_dataset, whatever the order of the days of the
\* calls, leaves the log with the keys it had and the keys of the batch, no
\* others and none lost, so that the keys of the log are the union of its
\* first keys and the keys of every batch; a call whose batch has no key that
\* the log lacks adds no line; no other step touches the log
C25_KeysAccumulate ==
    [][IF pc = "dataset"
       THEN /\ LogKeys(dataset') = LogKeys(dataset) \cup BatchKeys(all_articles)
            /\ BatchKeys(all_articles) \subseteq LogKeys(dataset) => dataset' = dataset
       ELSE dataset' = dataset]_vars

\* a second call for a day earlier than the day of the first has found one
\* key of its batch in the log and has written the others
C25_Witness ==
    /\ pc = "rss"
    /\ hist.ds.n = 2
    /\ date_str < now
    /\ \E i \in JsonLines(hist.ds.pre) : hist.ds.pre[i].entry.pub_date > date_str
    /\ Len(dataset) > Len(hist.ds.pre)
    /\ Len(dataset) < Len(hist.ds.pre) + Len(hist.ds.args[1])
    /\ LogKeys(dataset) = LogKeys(hist.ds.pre) \cup BatchKeys(hist.ds.args[1])

====
